---- MODULE Spec2Model ----
(***************************************************************************)
(* Model of glslmath's mesh library (include/mesh.hpp):                    *)
(*   - multi_mesh::split              (specification SpecSplit)            *)
(*   - mesh::generate_normals         (specification SpecNormals)          *)
(*   - the chunk writer, write_binary (specification SpecWrite)            *)
(* Strings are sequences of character codes, vec4 values are 4-tuples,     *)
(* a mesh is a record of its private members.                              *)
(***************************************************************************)
EXTENDS Integers, Sequences, FiniteSets, TLC

VARIABLES
  pc,         \* which operation has run: position of the caller
  src,        \* the mesh operated on (split's src, generate_normals' *this)
  args,       \* arguments of the split call
  dest,       \* the multi_mesh: result of split / object of write_binary
  outcome,    \* "none", "returned", or "crashed" (undefined behaviour trapped)
  finalized,  \* the sub-meshes split built at each finalize, with their rev list
  hist,       \* the mesh before and after each generate_normals call
  ip,         \* write_binary: index of the next writer call
  out,        \* write_binary on a byte cursor: the bytes of the buffer
  p,          \* write_binary on a byte cursor: the cursor offset
  stack,      \* open chunk objects of the byte cursor pass (tag start, len)
  size_,      \* write_binary on a sizer: sizer::size_
  sstack,     \* open chunk objects of the sizer pass (their len copies)
  closed,     \* log of closed chunks
  texts,      \* log of wrtxt calls
  mats        \* operands and result of a mat2 product

vars == <<pc, src, args, dest, outcome, finalized, hist, ip, out, p, stack,
          size_, sstack, closed, texts, mats>>

----------------------------------------------------------------------------
(* Bounds *)
MaxVert == 4     \* vertices per attribute / index values 0..MaxVert-1
MaxIdx == 6      \* length of an index buffer
MaxAttrs == 2    \* attributes of a mesh
MaxSize == 4     \* split's max_size argument ranges over 1..MaxSize
MaxName == 3     \* length of a mesh or attribute name
MaxMeshes == 2   \* members of a multi_mesh given to write_binary
MaxCalls == 2    \* generate_normals calls in one run
MaxEntry == 1    \* matrix entries range over -1..MaxEntry

----------------------------------------------------------------------------
(* Strings as character codes *)
str_pos == <<112, 111, 115>>
str_normal == <<110, 111, 114, 109, 97, 108>>
str_uv == <<117, 118>>
str_m == <<109>>

RECURSIVE Digits(_)
\* operator<<(ostream, int) for a non-negative int: its decimal digits
Digits(n) == IF n < 10 THEN <<48 + n>> ELSE Digits(n \div 10) \o <<48 + (n % 10)>>

\* mesh::bad_attr, ~(size_t)0: the all-ones word, written as the integer -1
bad_attr == 0 - 1

----------------------------------------------------------------------------
(* attribute and mesh objects *)

\* attribute::attribute with its default arguments
attribute(name) ==
  [name_ |-> name, vector_elems_ |-> 3, scalar_size_ |-> 4, is_float_ |-> TRUE,
   is_unsigned_ |-> FALSE, is_normalized_ |-> FALSE, vertices_ |-> <<>>]

\* attribute::copy_params: everything but the data
copy_params(a, rhs) ==
  [a EXCEPT !.name_ = rhs.name_, !.vector_elems_ = rhs.vector_elems_,
            !.scalar_size_ = rhs.scalar_size_, !.is_float_ = rhs.is_float_,
            !.is_unsigned_ = rhs.is_unsigned_,
            !.is_normalized_ = rhs.is_normalized_]

\* attribute::push(const vec3 &): vec4(v, 1)
push(a, v3) == [a EXCEPT !.vertices_ = Append(@, <<v3[1], v3[2], v3[3], 1>>)]

vertex_count(a) == Len(a.vertices_)

\* mesh::mesh
mesh(name, index_size) ==
  [name_ |-> name, attrs_ |-> <<>>, indices_ |-> <<>>, index_size_ |-> index_size]

\* mesh::add_attribute with default descriptor
add_attribute(m, name) == [m EXCEPT !.attrs_ = Append(@, attribute(name))]

RECURSIVE find_from(_, _, _)
find_from(m, name, i) ==
  IF i = Len(m.attrs_) THEN bad_attr
  ELSE IF m.attrs_[i + 1].name_ = name THEN i
  ELSE find_from(m, name, i + 1)

\* mesh::find_attribute: first match, or bad_attr
find_attribute(m, name) == find_from(m, name, 0)

----------------------------------------------------------------------------
(* multi_mesh::split *)

zeros(n) == [k \in 1..n |-> 0]

\* is_small with the comparison off by one
is_small_off_by_one(m, max_size) ==
  \A k \in 1..Len(m.indices_) : ~(m.indices_[k] + 1 >= max_size)

\* the scan for an index >= max_size (is_small)
is_small(m, max_size) == \A k \in 1..Len(m.indices_) : ~(m.indices_[k] >= max_size)

\* name of a sub-mesh: src.name() << "." << mesh_number
submesh_name(m, mesh_number) == m.name_ \o <<46>> \o Digits(mesh_number)

\* The attribute loop of a finalize.  newattr is a fresh attribute with no
\* rows, so newattr[j] reads vertices_[j] of an empty vector, and
\* oldattr[rev[j]] reads row rev[j] of the source attribute: TRUE when one
\* of these reads is out of bounds.  The value read is assigned to a
\* temporary and newattr is dropped at the end of its block.
finalize_reads_oob(m, rev) ==
  \E a \in 1..Len(m.attrs_) : \E j \in 1..Len(rev) :
    LET oldattr == m.attrs_[a]
        newattr == copy_params(attribute(<<>>), oldattr)
    IN  \/ (j - 1) >= vertex_count(newattr)
        \/ rev[j] >= vertex_count(oldattr)

\* The sub-mesh object a finalize builds: named, with the new index size,
\* no attribute is added to it, and its index buffer is assigned rev.
finalize_submesh(m, new_index_size, mesh_number, rev) ==
  [mesh(submesh_name(m, mesh_number), new_index_size) EXCEPT !.indices_ = rev]

\* One iteration of the for loop over i (0-based), on the loop state st.
split_step(m, max_size, new_index_size, st) ==
  LET n == Len(m.indices_)
      i == st.i
      unassigned == st.fwd[i + 1] = 0
      rev1 == IF unassigned THEN Append(st.rev, i) ELSE st.rev
      fwd1 == IF unassigned THEN [st.fwd EXCEPT ![i + 1] = Len(rev1)] ELSE st.fwd
      t1 == st.t + 1
      tri == (t1 = 3) \/ (i = n - 1)
      fin == tri /\ ((i = n - 1) \/ (Len(rev1) >= max_size))
  IN  [i |-> i + 1,
       t |-> IF tri THEN 0 ELSE t1,
       fwd |-> IF fin THEN zeros(n) ELSE fwd1,
       rev |-> IF fin THEN <<>> ELSE rev1,
       mesh_number |-> IF fin THEN st.mesh_number + 1 ELSE st.mesh_number,
       dest |-> st.dest,
       fin |-> IF fin
               THEN Append(st.fin,
                      [submesh |-> finalize_submesh(m, new_index_size, st.mesh_number, rev1),
                       rev |-> rev1])
               ELSE st.fin,
       oob |-> st.oob \/ (fin /\ finalize_reads_oob(m, rev1))]

RECURSIVE split_loop(_, _, _, _)
split_loop(m, max_size, new_index_size, st) ==
  IF st.i = Len(m.indices_) THEN st
  ELSE split_loop(m, max_size, new_index_size,
                  split_step(m, max_size, new_index_size, st))

\* multi_mesh::split: the returned dest, the sub-meshes finalized on the way
\* and whether an out-of-bounds read happened.
split(m, max_size, new_index_size) ==
  IF is_small(m, max_size)
  THEN [dest |-> <<m>>, fin |-> <<>>, oob |-> FALSE]
  ELSE LET st == split_loop(m, max_size, new_index_size,
                   [i |-> 0, t |-> 0, fwd |-> zeros(Len(m.indices_)), rev |-> <<>>,
                    mesh_number |-> 0, dest |-> <<>>, fin |-> <<>>, oob |-> FALSE])
       IN  [dest |-> st.dest, fin |-> st.fin, oob |-> st.oob]

----------------------------------------------------------------------------
(* Input meshes *)

\* vertex k of the test data: the corners of the unit square, then more points
Vtx(k) ==
  CASE k = 0 -> <<0, 0, 0>>
    [] k = 1 -> <<1, 0, 0>>
    [] k = 2 -> <<1, 1, 0>>
    [] k = 3 -> <<0, 1, 0>>
    [] OTHER -> <<k, 1, 1>>

AttrName(a) == IF a = 1 THEN str_pos ELSE IF a = 2 THEN str_uv ELSE <<97, 48 + a>>

RECURSIVE PushRows(_, _, _, _)
\* push rows k..n-1 of channel c onto attribute a
PushRows(a, c, k, n) ==
  IF k >= n THEN a
  ELSE PushRows(push(a, <<Vtx(k)[1] + 10 * (c - 1), Vtx(k)[2], Vtx(k)[3]>>), c, k + 1, n)

RECURSIVE BuildAttrs(_, _, _)
\* add_attribute and push, for channels a..na, nv rows each
BuildAttrs(m, a, na) ==
  IF a > na[1] THEN m
  ELSE LET m1 == add_attribute(m, AttrName(a))
           m2 == [m1 EXCEPT !.attrs_[a] = PushRows(@, a, 0, na[2])]
       IN  BuildAttrs(m2, a + 1, na)

\* a mesh named "m" with na channels of nv rows and the index buffer idx
BuildMesh(name, index_size, na, nv, idx) ==
  [BuildAttrs(mesh(name, index_size), 1, <<na, nv>>) EXCEPT !.indices_ = idx]

NoArgs == [max_size |-> 0, new_index_size |-> 0]

Idle ==
  /\ args = NoArgs /\ dest = <<>> /\ outcome = "none" /\ finalized = <<>>
  /\ hist = <<>> /\ ip = 0 /\ out = <<>> /\ p = 0 /\ stack = <<>>
  /\ size_ = 0 /\ sstack = <<>> /\ closed = <<>> /\ texts = <<>>
  /\ mats = <<>>

InitSplit ==
  /\ pc = "split_ready"
  /\ \E na \in {0, MaxAttrs}, n \in 0..MaxIdx :
       \E idx \in [1..n -> 0..(MaxVert - 1)] :
         src = BuildMesh(str_m, 4, na, MaxVert, idx)
  /\ Idle

\* a call  dest = multi_mesh::split(src, max_size, new_index_size).
\* An out-of-bounds read either traps or yields a value nothing depends on.
Split ==
  /\ pc = "split_ready"
  /\ \E max_size \in 1..MaxSize, new_index_size \in {2, 4} :
       LET r == split(src, max_size, new_index_size) IN
       /\ args' = [max_size |-> max_size, new_index_size |-> new_index_size]
       /\ finalized' = r.fin
       /\ \/ /\ outcome' = "returned"
             /\ dest' = r.dest
          \/ /\ r.oob
             /\ outcome' = "crashed"
             /\ dest' = <<>>
  /\ pc' = "split_done"
  /\ UNCHANGED <<src, hist, ip, out, p, stack, size_, sstack, closed, texts, mats>>

NextSplit == Split

SpecSplit == InitSplit /\ [][NextSplit]_vars

----------------------------------------------------------------------------
(* Properties of multi_mesh::split *)

SplitReturned == pc = "split_done" /\ outcome = "returned"

\* some index of src is >= max_size: the slow path
SlowPath == \E k \in 1..Len(src.indices_) : src.indices_[k] >= args.max_size

\* every index of src is < max_size: the fast path
FastPath == \A k \in 1..Len(src.indices_) : src.indices_[k] < args.max_size

\* src satisfies the Mesh invariant: whole triangles, every index a row of
\* every attribute
ValidMesh ==
  /\ Len(src.indices_) % 3 = 0
  /\ \A a \in 1..Len(src.attrs_) : \A k \in 1..Len(src.indices_) :
       src.indices_[k] < vertex_count(src.attrs_[a])

\* the original vertex local slot l of sub-mesh k maps to, by the rev list
\* of the k-th finalize (-1 when there is none)
OrigOf(k, l) ==
  IF k <= Len(finalized) /\ l >= 0 /\ l < Len(finalized[k].rev)
  THEN finalized[k].rev[l + 1]
  ELSE 0 - 1

RECURSIVE Reassemble(_)
\* index buffers of dest[1..k], each local index translated back
Reassemble(k) ==
  IF k = 0 THEN <<>>
  ELSE Reassemble(k - 1) \o
       [j \in 1..Len(dest[k].indices_) |-> OrigOf(k, dest[k].indices_[j])]

\* C1: on the slow path split preserves connectivity and data: the
\* sub-meshes' index buffers, translated back to original vertices and
\* concatenated in result order, are the original index buffer, and each
\* sub-mesh attribute row is the original row of the vertex it maps to.
C1_SplitPreserves ==
  (SplitReturned /\ ValidMesh /\ SlowPath) =>
    /\ Reassemble(Len(dest)) = src.indices_
    /\ \A k \in 1..Len(dest) : \A a \in 1..Len(dest[k].attrs_) :
         \A j \in 1..Len(dest[k].attrs_[a].vertices_) :
           /\ a <= Len(src.attrs_)
           /\ OrigOf(k, j - 1) >= 0
           /\ OrigOf(k, j - 1) < Len(src.attrs_[a].vertices_)
           /\ dest[k].attrs_[a].vertices_[j] = src.attrs_[a].vertices_[OrigOf(k, j - 1) + 1]

\* C2: on the fast path (every index < max_size, or no index at all) split
\* returns exactly one member, with the name, attributes and index buffer of src.
C2_FastPathUnchanged ==
  (pc = "split_done" /\ FastPath) =>
    /\ outcome = "returned"
    /\ Len(dest) = 1
    /\ dest[1].name_ = src.name_
    /\ dest[1].attrs_ = src.attrs_
    /\ dest[1].indices_ = src.indices_

\* a fast-path call on a mesh with an attribute and a full index buffer whose
\* largest index is just below max_size
C2_Witness ==
  /\ SplitReturned /\ FastPath
  /\ Len(src.attrs_) = MaxAttrs /\ Len(src.indices_) = MaxIdx
  /\ \E k \in 1..Len(src.indices_) : src.indices_[k] = args.max_size - 1
  /\ dest = <<src>>

\* C3: on the slow path the result holds every finalized sub-mesh in chunk
\* order: as many members as finalize events (at least one), member k named
\* "<name>.<k>" with index_size = new_index_size.
C3_ResultHoldsFinalized ==
  (SplitReturned /\ ValidMesh /\ SlowPath) =>
    /\ Len(finalized) >= 1
    /\ Len(dest) = Len(finalized)
    /\ \A k \in 1..Len(dest) :
         /\ dest[k].name_ = src.name_ \o <<46>> \o Digits(k - 1)
         /\ dest[k].index_size_ = args.new_index_size

\* the distinct original vertices of the index positions in rev
ChunkVertices(rev) == {src.indices_[rev[j] + 1] : j \in 1..Len(rev)}

\* C4: every sub-mesh finalized on the slow path has one attribute per
\* original attribute, all with as many rows as distinct original vertices
\* were assigned to the chunk, at most max_size of them, and every index of
\* the sub-mesh is a local slot in [0, local_vertex_count).
C4_SubmeshInvariant ==
  (pc = "split_done" /\ ValidMesh /\ SlowPath) =>
    \A k \in 1..Len(finalized) :
      LET sub == finalized[k].submesh
          local_vertex_count == Cardinality(ChunkVertices(finalized[k].rev))
      IN  /\ Len(sub.attrs_) = Len(src.attrs_)
          /\ \A a \in 1..Len(sub.attrs_) : vertex_count(sub.attrs_[a]) = local_vertex_count
          /\ local_vertex_count <= args.max_size
          /\ \A j \in 1..Len(sub.indices_) :
               sub.indices_[j] >= 0 /\ sub.indices_[j] < local_vertex_count

----------------------------------------------------------------------------
(* Vector algebra used by mesh::generate_normals (math.hpp).  Positions are *)
(* integer-valued floats; a component of a normalized vector that is not   *)
(* an integer is kept as num/sqrt(sq).                                     *)

xyz(v4) == <<v4[1], v4[2], v4[3]>>
vsub(a, b) == <<a[1] - b[1], a[2] - b[2], a[3] - b[3]>>
vadd(a, b) == <<a[1] + b[1], a[2] + b[2], a[3] + b[3]>>
dot(a, b) == a[1] * b[1] + a[2] * b[2] + a[3] * b[3]
cross(a, b) ==
  <<a[2] * b[3] - a[3] * b[2], a[3] * b[1] - a[1] * b[3], a[1] * b[2] - a[2] * b[1]>>

\* x * (1.0f / sqrt(d)) for integers x and d > 0
scaled(x, d) ==
  IF x = 0 THEN 0
  ELSE IF \E r \in 1..d : r * r = d /\ x % r = 0
       THEN x \div (CHOOSE r \in 1..d : r * r = d)
       ELSE [num |-> x, sq |-> d]

normalized(a) ==
  LET d == dot(a, a) IN <<scaled(a[1], d), scaled(a[2], d), scaled(a[3], d)>>

----------------------------------------------------------------------------
(* mesh::generate_normals *)

\* the early return with the comparison flipped
normal_guard_flipped(m) == find_attribute(m, str_normal) = Len(m.attrs_)

\* the early return: find_attribute("normal") != attributes().size()
normal_guard(m) == find_attribute(m, str_normal) # Len(m.attrs_)

\* pos[i]: row i of the attribute, or the stray value g when i is out of bounds
row_or(pos, i, g) == IF i < vertex_count(pos) THEN pos.vertices_[i + 1] ELSE g

RECURSIVE accumulate(_, _, _, _, _)
\* the triangle loop from index position i on: normals is the accumulator
accumulate(pos, indices, i, normals, g) ==
  IF ~(i + 2 < Len(indices)) THEN normals
  ELSE LET ai == indices[i + 1]
           bi == indices[i + 2]
           ci == indices[i + 3]
           a == xyz(row_or(pos, ai, g))
           b == xyz(row_or(pos, bi, g))
           c == xyz(row_or(pos, ci, g))
           normal == cross(vsub(b, a), vsub(c, a))
           add(ns, k) == IF k < Len(ns) THEN [ns EXCEPT ![k + 1] = vadd(@, normal)] ELSE ns
       IN  accumulate(pos, indices, i + 3, add(add(add(normals, ai), bi), ci), g)

RECURSIVE push_normals(_, _, _)
\* the final loop: push normalized(n), or (1, 0, 0) for a short vector
push_normals(attr, normals, k) ==
  IF k > Len(normals) THEN attr
  ELSE LET n == normals[k] IN
       push_normals(IF dot(n, n) >= 1 THEN push(attr, normalized(n))
                    ELSE push(attr, <<1, 0, 0>>),
                    normals, k + 1)

\* mesh::generate_normals on m.  g supplies what an out-of-bounds read
\* yields: g.attr for attrs_[bad_attr], g.row for a row beyond the end.
\* The result is the mesh afterwards and whether such a read happened.
generate_normals(m, g) ==
  IF normal_guard(m) THEN [mesh |-> m, oob |-> FALSE]
  ELSE LET normal_attr == Len(m.attrs_)
           m1 == add_attribute(m, str_normal)
           pos_attr == find_attribute(m1, str_pos)
           pos == IF pos_attr = bad_attr THEN g.attr ELSE m1.attrs_[pos_attr + 1]
           normals == accumulate(pos, m1.indices_, 0,
                                 [k \in 1..vertex_count(pos) |-> <<0, 0, 0>>], g.row)
           row_oob == \E k \in 1..Len(m1.indices_) :
                        /\ k <= 3 * (Len(m1.indices_) \div 3)
                        /\ m1.indices_[k] >= vertex_count(pos)
       IN  [mesh |-> [m1 EXCEPT !.attrs_[normal_attr + 1] = push_normals(@, normals, 1)],
            oob |-> (pos_attr = bad_attr) \/ row_oob]

\* what an out-of-bounds read may yield
Stray ==
  {[attr |-> PushRows(attribute(<<>>), 1, 0, n), row |-> <<r, 0, 0, 1>>] :
     n \in 0..1, r \in 0..1}

AttrConfigs ==
  {<<>>, <<str_pos>>, <<str_normal>>, <<str_pos, str_normal>>,
   <<str_normal, str_pos>>, <<str_uv, str_pos>>}

RECURSIVE BuildNamed(_, _, _, _)
\* add_attribute(names[a]) and nv pushes, for a = k..Len(names)
BuildNamed(m, names, k, nv) ==
  IF k > Len(names) THEN m
  ELSE LET m1 == add_attribute(m, names[k])
           m2 == [m1 EXCEPT !.attrs_[k] = PushRows(@, IF names[k] = str_pos THEN 1 ELSE 2, 0, nv)]
       IN  BuildNamed(m2, names, k + 1, nv)

InitNormals ==
  /\ pc = "normals"
  /\ \E names \in AttrConfigs, nv \in 0..MaxVert, n \in 0..MaxIdx :
       \E idx \in [1..n -> 0..(nv - 1)] :
         src = [BuildNamed(mesh(str_m, 4), names, 1, nv) EXCEPT !.indices_ = idx]
  /\ args = NoArgs /\ dest = <<>> /\ outcome = "none" /\ finalized = <<>>
  /\ hist = <<src>> /\ ip = 0 /\ out = <<>> /\ p = 0 /\ stack = <<>>
  /\ size_ = 0 /\ sstack = <<>> /\ closed = <<>> /\ texts = <<>>
  /\ mats = <<>>

\* a call  src.generate_normals()
GenerateNormals ==
  /\ pc = "normals"
  /\ Len(hist) <= MaxCalls
  /\ \E g \in Stray : \E crash \in BOOLEAN :
       LET r == generate_normals(src, g) IN
       /\ crash => r.oob
       /\ src' = IF crash THEN src ELSE r.mesh
       /\ hist' = IF crash THEN hist ELSE Append(hist, r.mesh)
       /\ outcome' = IF crash THEN "crashed" ELSE "returned"
       /\ pc' = IF crash THEN "normals_crashed" ELSE "normals"
  /\ UNCHANGED <<args, dest, finalized, ip, out, p, stack, size_, sstack, closed, texts,
                 mats>>

NextNormals == GenerateNormals

SpecNormals == InitNormals /\ [][NextNormals]_vars

----------------------------------------------------------------------------
(* Properties of mesh::generate_normals *)

HasAttr(m, name) == \E a \in 1..Len(m.attrs_) : m.attrs_[a].name_ = name

FirstAttr(m, name) ==
  m.attrs_[CHOOSE a \in 1..Len(m.attrs_) :
             /\ m.attrs_[a].name_ = name
             /\ \A b \in 1..(a - 1) : m.attrs_[b].name_ # name]

\* the cross product of triangle t (0-based) of mesh m
TriNormal(m, t) ==
  LET pos == FirstAttr(m, str_pos)
      a == xyz(pos.vertices_[m.indices_[3 * t + 1] + 1])
      b == xyz(pos.vertices_[m.indices_[3 * t + 2] + 1])
      c == xyz(pos.vertices_[m.indices_[3 * t + 3] + 1])
  IN  cross(vsub(b, a), vsub(c, a))

RECURSIVE SumNormals(_, _, _)
\* sum of the cross products of triangles 0..t-1 of m, once per use of vertex v
SumNormals(m, v, t) ==
  IF t = 0 THEN <<0, 0, 0>>
  ELSE LET s == SumNormals(m, v, t - 1)
           n == TriNormal(m, t - 1)
           u1 == IF m.indices_[3 * t - 2] = v THEN vadd(s, n) ELSE s
           u2 == IF m.indices_[3 * t - 1] = v THEN vadd(u1, n) ELSE u1
       IN  IF m.indices_[3 * t] = v THEN vadd(u2, n) ELSE u2

\* the normal row expected for vertex v of m
ExpectedNormal(m, v) ==
  LET s == SumNormals(m, v, Len(m.indices_) \div 3)
      n == IF dot(s, s) >= 1 THEN normalized(s) ELSE <<1, 0, 0>>
  IN  <<n[1], n[2], n[3], 1>>

\* C9: on a mesh with a pos attribute and no normal attribute a call adds a
\* normal attribute with as many rows as pos, row v being the normalized
\* sum of the cross products of the triangles that use vertex v.
C9_NormalsGenerated ==
  (pc = "normals" /\ Len(hist) >= 2 /\ HasAttr(hist[1], str_pos)
     /\ ~HasAttr(hist[1], str_normal)) =>
    LET m0 == hist[1]
        m == hist[2]
    IN  /\ HasAttr(m, str_normal)
        /\ vertex_count(FirstAttr(m, str_normal)) = vertex_count(FirstAttr(m0, str_pos))
        /\ \A v \in 1..vertex_count(FirstAttr(m, str_normal)) :
             FirstAttr(m, str_normal).vertices_[v] = ExpectedNormal(m0, v - 1)

\* C10: for a mesh with a pos attribute a second call leaves the mesh as the
\* first call left it, and a call on a mesh that has a normal attribute
\* changes nothing.
C10_Idempotent ==
  (pc = "normals" /\ HasAttr(hist[1], str_pos)) =>
    /\ Len(hist) >= 3 =>
         /\ Len(hist[3].attrs_) = Len(hist[2].attrs_)
         /\ hist[3].attrs_ = hist[2].attrs_
         /\ hist[3].indices_ = hist[2].indices_
    /\ HasAttr(hist[1], str_normal) => \A k \in 1..Len(hist) : hist[k] = hist[1]

\* two calls were made on the unit square mesh
C10_Witness ==
  /\ pc = "normals" /\ Len(hist) = 3
  /\ HasAttr(hist[1], str_pos) /\ ~HasAttr(hist[1], str_normal)
  /\ hist[1].indices_ = <<0, 1, 2, 0, 2, 3>>
  /\ vertex_count(FirstAttr(hist[1], str_pos)) = 4
  /\ hist[3] = hist[2]

----------------------------------------------------------------------------
(* serial: the writers, on an output cursor.  A cursor is either a byte    *)
(* pointer into a buffer, [kind |-> "ptr", buf, p], or a sizer,            *)
(* [kind |-> "sizer", size_]; the byte a sizer is given goes to            *)
(* sizer::sink, which nothing reads.                                       *)

ptr(buf, pos) == [kind |-> "ptr", buf |-> buf, p |-> pos]
sizer(n) == [kind |-> "sizer", size_ |-> n]

\* *p++ = b
put(c, b) ==
  IF c.kind = "sizer" THEN [c EXCEPT !.size_ = @ + 1]
  ELSE [c EXCEPT !.buf = IF c.p < Len(@) THEN [@ EXCEPT ![c.p + 1] = b] ELSE Append(@, b),
                 !.p = @ + 1]

\* p - ref
diff(c, ref) == IF c.kind = "sizer" THEN c.size_ - ref.size_ ELSE c.p - ref.p

\* the position of a cursor, and a copy of a cursor taken at a position
where(c) == IF c.kind = "sizer" THEN c.size_ ELSE c.p
cursor_at(c, pos) == IF c.kind = "sizer" THEN [c EXCEPT !.size_ = pos] ELSE [c EXCEPT !.p = pos]

wr32(c, value) ==
  put(put(put(put(c, value % 256), (value \div 256) % 256),
          (value \div 65536) % 256), (value \div 16777216) % 256)

wr16(c, value) == put(put(c, value % 256), (value \div 256) % 256)

RECURSIVE align2(_, _)
\* align4 with the mask 1 in place of 3
align2(c, ref) == IF diff(c, ref) % 2 # 0 THEN align2(put(c, 0), ref) ELSE c

RECURSIVE align4(_, _)
align4(c, ref) == IF diff(c, ref) % 4 # 0 THEN align4(put(c, 0), ref) ELSE c

RECURSIVE put_text(_, _, _)
\* while (*text) *p++ = *text++, from character k on
put_text(c, text, k) == IF k > Len(text) THEN c ELSE put_text(put(c, text[k]), text, k + 1)

wrtxt(c, text) == align4(put(put_text(c, text, 1), 0), c)

\* chunk::chunk with len taken after the placeholder is written
chunk_open_len_late(c, tag) ==
  LET c1 == wr32(wrtxt(c, tag), 0) IN [p |-> c1, len |-> where(c1)]

\* chunk::chunk: the cursor afterwards and the len member
chunk_open(c, tag) ==
  LET c1 == wrtxt(c, tag) IN [p |-> wr32(c1, 0), len |-> where(c1)]

\* ~chunk writing the length at p instead of at len
chunk_close_patch_at_p(c, len) ==
  LET patched == wr32(c, diff(c, cursor_at(c, len)))
      c1 == IF c.kind = "ptr" THEN [c EXCEPT !.buf = patched.buf] ELSE c
  IN  align4(c1, cursor_at(c1, len))

\* chunk::~chunk: wr32 through the copy len (its result is dropped, the bytes
\* land in the buffer the pointer shares), then align4(p, len)
chunk_close(c, len) ==
  LET patched == wr32(cursor_at(c, len), diff(c, cursor_at(c, len)))
      c1 == IF c.kind = "ptr" THEN [c EXCEPT !.buf = patched.buf] ELSE c
  IN  align4(c1, cursor_at(c1, len))

----------------------------------------------------------------------------
(* IEEE-754 single precision image of an integer-valued float *)

RECURSIVE ilog2(_)
ilog2(n) == IF n < 2 THEN 0 ELSE 1 + ilog2(n \div 2)

RECURSIVE pow2(_)
pow2(n) == IF n = 0 THEN 1 ELSE 2 * pow2(n - 1)

\* u.f = v; u.u[0..3] on a little-endian machine, for an integer |v| < 2^24
float_bytes(v) ==
  IF v = 0 THEN <<0, 0, 0, 0>>
  ELSE LET s == IF v < 0 THEN 1 ELSE 0
           mag == IF v < 0 THEN 0 - v ELSE v
           e == ilog2(mag)
           ex == e + 127
           mant == (mag - pow2(e)) * pow2(23 - e)
       IN  <<mant % 256, (mant \div 256) % 256,
             (ex % 2) * 128 + (mant \div 65536), s * 128 + (ex \div 2)>>

\* the body of the a3f loop: v[0], v[1], v[2] byte by byte
put_vertex(c, v) ==
  LET f(d, x) == put(put(put(put(d, float_bytes(x)[1]), float_bytes(x)[2]),
                         float_bytes(x)[3]), float_bytes(x)[4])
  IN  f(f(f(c, v[1]), v[2]), v[3])

----------------------------------------------------------------------------
(* write_binary: the sequence of writer calls *)

tag_MLT == <<77, 76, 84>>
tag_MSH == <<77, 83, 72>>
tag_msh == <<109, 115, 104>>
tag_ATR == <<65, 84, 82>>
tag_atn == <<97, 116, 110>>
tag_a3f == <<97, 51, 102>>
tag_ix2 == <<105, 120, 50>>
tag_ix4 == <<105, 120, 52>>

Open(tag) == [op |-> "open", arg |-> tag]
Close == [op |-> "close", arg |-> <<>>]

\* attribute::write_binary
attribute_write_binary(a) ==
  <<Open(tag_ATR), Open(tag_atn), [op |-> "wrtxt", arg |-> a.name_], Close, Open(tag_a3f)>>
  \o [k \in 1..Len(a.vertices_) |-> [op |-> "vertex", arg |-> a.vertices_[k]]]
  \o <<Close, Close>>

RECURSIVE attrs_write_binary(_, _)
attrs_write_binary(m, k) ==
  IF k > Len(m.attrs_) THEN <<>>
  ELSE attribute_write_binary(m.attrs_[k]) \o attrs_write_binary(m, k + 1)

\* mesh::write_binary
mesh_write_binary(m) ==
  <<Open(tag_MSH), Open(tag_msh), [op |-> "wrtxt", arg |-> m.name_], Close>>
  \o attrs_write_binary(m, 1)
  \o (IF m.index_size_ = 2
      THEN <<Open(tag_ix2)>>
           \o [k \in 1..Len(m.indices_) |-> [op |-> "wr16", arg |-> m.indices_[k]]]
      ELSE <<Open(tag_ix4)>>
           \o [k \in 1..Len(m.indices_) |-> [op |-> "wr32", arg |-> m.indices_[k]]])
  \o <<Close, Close>>

RECURSIVE meshes_write_binary(_, _)
meshes_write_binary(mm, k) ==
  IF k > Len(mm) THEN <<>>
  ELSE mesh_write_binary(mm[k]) \o meshes_write_binary(mm, k + 1)

\* multi_mesh::write_binary
multi_mesh_write_binary(mm) == <<Open(tag_MLT)>> \o meshes_write_binary(mm, 1) \o <<Close>>

----------------------------------------------------------------------------
(* The multi_mesh objects given to write_binary *)

Name(n) == [i \in 1..n |-> 96 + i]

\* index values that use one, two and three bytes
IdxVal(k) == CASE k % 3 = 1 -> k - 1 [] k % 3 = 2 -> 258 + k [] OTHER -> 66051 + k

RECURSIVE WriteAttrs(_, _, _, _)
\* channels a..na with names of varying length and nv rows each
WriteAttrs(m, a, na, nl) ==
  IF a > na[1] THEN m
  ELSE LET m1 == add_attribute(m, Name((nl + a) % (MaxName + 1)))
           m2 == [m1 EXCEPT !.attrs_[a] = PushRows(@, a, 0, na[2])]
       IN  WriteAttrs(m2, a + 1, na, nl)

\* member k of the multi_mesh: the index size alternates, the name length varies
WriteMesh(k, nl, is, na, nv, ni) ==
  [WriteAttrs(mesh(Name((nl + k - 1) % (MaxName + 1)), IF k % 2 = 1 THEN is ELSE 6 - is),
              1, <<na, nv>>, nl)
     EXCEPT !.indices_ = [j \in 1..ni |-> IdxVal(j)]]

InitWrite ==
  /\ pc = "write"
  /\ src = mesh(str_m, 4)
  /\ \E nm \in 0..MaxMeshes, nl \in 0..MaxName, is \in {2, 4}, na \in 0..MaxAttrs,
        nv \in 0..MaxVert, ni \in 0..MaxIdx :
       dest = [k \in 1..nm |-> WriteMesh(k, nl, is, na, nv, ni)]
  /\ args = NoArgs /\ outcome = "none" /\ finalized = <<>> /\ hist = <<>>
  /\ ip = 1 /\ out = <<>> /\ p = 0 /\ stack = <<>>
  /\ size_ = 0 /\ sstack = <<>> /\ closed = <<>> /\ texts = <<>>
  /\ mats = <<>>

----------------------------------------------------------------------------
(* dest.write_binary(p), once on a byte pointer and once on a sizer, call  *)
(* by call                                                                 *)

Prog == multi_mesh_write_binary(dest)
At(kind) == pc = "write" /\ ip <= Len(Prog) /\ Prog[ip].op = kind

Kept == <<pc, src, args, dest, outcome, finalized, hist, mats>>

\* chunk<Iter> X(p, tag)
ChunkOpen ==
  /\ At("open")
  /\ LET tag == Prog[ip].arg
         r == chunk_open(ptr(out, p), tag)
         q == chunk_open(sizer(size_), tag)
     IN  /\ out' = r.p.buf
         /\ p' = r.p.p
         /\ stack' = Append(stack, [tag |-> tag, start |-> p, len |-> r.len])
         /\ size_' = q.p.size_
         /\ sstack' = Append(sstack, q.len)
         /\ texts' = Append(texts, [start |-> p, text |-> tag, end |-> r.len])
  /\ ip' = ip + 1
  /\ UNCHANGED <<Kept, closed>>

\* the end of a chunk's block: ~chunk of the innermost open chunk
ChunkClose ==
  /\ At("close")
  /\ LET top == stack[Len(stack)]
         r == chunk_close(ptr(out, p), top.len)
         q == chunk_close(sizer(size_), sstack[Len(sstack)])
     IN  /\ out' = r.buf
         /\ p' = r.p
         /\ size_' = q.size_
         /\ closed' = Append(closed, [tag |-> top.tag, start |-> top.start, len |-> top.len,
                                      payload_end |-> p, end |-> r.p, depth |-> Len(stack)])
  /\ stack' = SubSeq(stack, 1, Len(stack) - 1)
  /\ sstack' = SubSeq(sstack, 1, Len(sstack) - 1)
  /\ ip' = ip + 1
  /\ UNCHANGED <<Kept, texts>>

\* p = wrtxt(p, name_.c_str())
Wrtxt ==
  /\ At("wrtxt")
  /\ LET r == wrtxt(ptr(out, p), Prog[ip].arg)
         q == wrtxt(sizer(size_), Prog[ip].arg)
     IN  /\ out' = r.buf
         /\ p' = r.p
         /\ size_' = q.size_
         /\ texts' = Append(texts, [start |-> p, text |-> Prog[ip].arg, end |-> r.p])
  /\ ip' = ip + 1
  /\ UNCHANGED <<Kept, stack, sstack, closed>>

\* one iteration of the a3f loop
WriteVertex ==
  /\ At("vertex")
  /\ LET r == put_vertex(ptr(out, p), Prog[ip].arg)
         q == put_vertex(sizer(size_), Prog[ip].arg)
     IN  out' = r.buf /\ p' = r.p /\ size_' = q.size_
  /\ ip' = ip + 1
  /\ UNCHANGED <<Kept, stack, sstack, closed, texts>>

\* p = wr16(p, idx)
Wr16 ==
  /\ At("wr16")
  /\ LET r == wr16(ptr(out, p), Prog[ip].arg)
         q == wr16(sizer(size_), Prog[ip].arg)
     IN  out' = r.buf /\ p' = r.p /\ size_' = q.size_
  /\ ip' = ip + 1
  /\ UNCHANGED <<Kept, stack, sstack, closed, texts>>

\* p = wr32(p, idx)
Wr32 ==
  /\ At("wr32")
  /\ LET r == wr32(ptr(out, p), Prog[ip].arg)
         q == wr32(sizer(size_), Prog[ip].arg)
     IN  out' = r.buf /\ p' = r.p /\ size_' = q.size_
  /\ ip' = ip + 1
  /\ UNCHANGED <<Kept, stack, sstack, closed, texts>>

\* return p
WriteReturn ==
  /\ pc = "write" /\ ip > Len(Prog)
  /\ pc' = "write_done"
  /\ outcome' = "returned"
  /\ UNCHANGED <<src, args, dest, finalized, hist, ip, out, p, stack, size_, sstack,
                 closed, texts, mats>>

NextWrite ==
  \/ ChunkOpen \/ ChunkClose \/ Wrtxt \/ WriteVertex \/ Wr16 \/ Wr32 \/ WriteReturn

SpecWrite == InitWrite /\ [][NextWrite]_vars

----------------------------------------------------------------------------
(* Properties of the chunk writer *)

Writing == pc \in {"write", "write_done"}

\* a reader's parse of the little-endian uint32 at offset pos of the output
Rd32(pos) ==
  out[pos + 1] + 256 * out[pos + 2] + 65536 * out[pos + 3] + 16777216 * out[pos + 4]

\* C5: the length field of a closed chunk holds the number of bytes from
\* just after the length field to the end of the payload, without the
\* length field itself and without the padding (0 for an empty payload).
C5_LengthIsPayloadSize ==
  Writing => \A k \in 1..Len(closed) :
    Rd32(closed[k].len) = closed[k].payload_end - (closed[k].len + 4)

\* where a reader lands that skips `length' bytes from just after the
\* length field of closed chunk k
Landing(k) == closed[k].len + 4 + Rd32(closed[k].len)

\* closed chunk e encloses closed chunk k directly
Encloses(e, k) ==
  /\ closed[e].depth = closed[k].depth - 1
  /\ closed[e].len < closed[k].start
  /\ closed[k].end <= closed[e].payload_end

\* closed chunks d and k are children of the same chunk
Siblings(d, k) ==
  /\ closed[d].depth = closed[k].depth
  /\ \A e \in 1..Len(closed) : Encloses(e, d) <=> Encloses(e, k)

\* C6: in a finished output, skipping `length' bytes from just after a
\* chunk's length field lands on the start of the next sibling chunk or on
\* the end of the enclosing chunk (the end of the output for the outermost
\* chunk), and that position is 4-byte aligned.
C6_ChunkRoundTrip ==
  pc = "write_done" => \A k \in 1..Len(closed) :
    /\ Landing(k) % 4 = 0
    /\ \/ \E d \in 1..Len(closed) :
            Siblings(d, k) /\ closed[d].start = Landing(k) /\ closed[d].start >= closed[k].end
       \/ \E e \in 1..Len(closed) : Encloses(e, k) /\ closed[e].payload_end = Landing(k)
       \/ closed[k].depth = 1 /\ Landing(k) = Len(out)

\* bytes lo+1 .. hi of the output are zero
ZeroBytes(lo, hi) == \A j \in (lo + 1)..hi : out[j] = 0

\* C7: a closed chunk ends a multiple of 4 after its length field, a wrtxt
\* ends a multiple of 4 after its start, the padding is at most 3 bytes, all
\* zero, and every tag and every length field starts at a multiple of 4.
C7_Alignment ==
  Writing =>
    /\ \A k \in 1..Len(closed) :
         LET c == closed[k] IN
         /\ (c.end - c.len) % 4 = 0
         /\ c.end - c.payload_end \in 0..3
         /\ ZeroBytes(c.payload_end, c.end)
         /\ c.start % 4 = 0 /\ c.len % 4 = 0
    /\ \A k \in 1..Len(texts) :
         LET t == texts[k]
             text_end == t.start + Len(t.text) + 1
         IN  /\ (t.end - t.start) % 4 = 0
             /\ t.end - text_end \in 0..3
             /\ ZeroBytes(text_end, t.end)
    /\ \A k \in 1..Len(stack) : stack[k].start % 4 = 0 /\ stack[k].len % 4 = 0

\* a finished output with a chunk padded by 2 bytes and a text padded by 3
C7_Witness ==
  /\ pc = "write_done"
  /\ \E k \in 1..Len(closed) : closed[k].end - closed[k].payload_end = 2
  /\ \E k \in 1..Len(texts) : texts[k].end - (texts[k].start + Len(texts[k].text) + 1) = 3
  /\ \E k \in 1..Len(closed) : closed[k].depth = 3

\* C8: at every point of the call sequence the sizer's size() is the number
\* of bytes the byte cursor has advanced, the chunks' len copies agree, and
\* every byte written lies below the cursor: a buffer of size() bytes is
\* filled exactly.
C8_SizerCountsBytes ==
  Writing =>
    /\ size_ = p
    /\ Len(out) = p
    /\ Len(sstack) = Len(stack)
    /\ \A k \in 1..Len(stack) : sstack[k] = stack[k].len

\* a finished two-mesh output
C8_Witness ==
  /\ pc = "write_done"
  /\ Len(dest) = MaxMeshes
  /\ Len(dest[1].attrs_) = MaxAttrs /\ Len(dest[1].indices_) = 3
  /\ \E k \in 1..Len(closed) : closed[k].end > closed[k].payload_end
  /\ size_ = Len(out) /\ size_ > 100

----------------------------------------------------------------------------
(* mesh::write_obj *)

\* attribute::attribute with every argument given
attribute_of(name, num_elems, element_size, is_float) ==
  [attribute(name) EXCEPT !.vector_elems_ = num_elems, !.scalar_size_ = element_size,
                          !.is_float_ = is_float]

\* attribute::vertex_size and the accessors next to it
vector_elems(a) == a.vector_elems_
vertex_size(a) == a.vector_elems_ * a.scalar_size_
scalar_size(a) == a.scalar_size_

\* the test that throws range_error("write_obj: wrong pos attr")
wrong_pos_attr(a) == vertex_size(a) # 3 \/ scalar_size(a) # 4 \/ ~a.is_float_

\* os << f for an integer-valued float, os << i for an index
float_text(v) == IF v < 0 THEN <<45>> \o Digits(0 - v) ELSE Digits(v)

\* the "v x y z" line of one row
v_line(v) ==
  <<118, 32>> \o float_text(v[1]) \o <<32>> \o float_text(v[2]) \o <<32>>
  \o float_text(v[3]) \o <<10>>

RECURSIVE v_lines(_, _)
v_lines(attr, i) ==
  IF i = vertex_count(attr) THEN <<>>
  ELSE v_line(attr.vertices_[i + 1]) \o v_lines(attr, i + 1)

\* one corner of a face: the index, repeated once per channel present
f_corner(i, has_uv, has_normal) ==
  IF ~has_uv /\ ~has_normal THEN Digits(i)
  ELSE IF has_uv /\ ~has_normal THEN Digits(i) \o <<47>> \o Digits(i)
  ELSE IF ~has_uv /\ has_normal THEN Digits(i) \o <<47, 47>> \o Digits(i)
  ELSE Digits(i) \o <<47>> \o Digits(i) \o <<47>> \o Digits(i)

RECURSIVE f_lines(_, _, _, _)
\* the face loop from index position i on
f_lines(indices, i, has_uv, has_normal) ==
  IF ~(i + 2 < Len(indices)) THEN <<>>
  ELSE <<102, 32>> \o f_corner(indices[i + 1], has_uv, has_normal) \o <<32>>
       \o f_corner(indices[i + 2], has_uv, has_normal) \o <<32>>
       \o f_corner(indices[i + 3], has_uv, has_normal) \o <<10>>
       \o f_lines(indices, i + 3, has_uv, has_normal)

\* mesh::write_obj: the characters sent to os and whether it threw
write_obj(m) ==
  LET pos_attr == find_attribute(m, str_pos)
      uv_attr == find_attribute(m, str_uv)
      normal_attr == find_attribute(m, str_normal)
      header == <<111, 32>> \o m.name_ \o <<10>>
  IN  IF pos_attr = bad_attr THEN [os |-> header, threw |-> FALSE]
      ELSE LET attr == m.attrs_[pos_attr + 1] IN
           IF wrong_pos_attr(attr) THEN [os |-> header, threw |-> TRUE]
           ELSE [os |-> header \o v_lines(attr, 0)
                          \o f_lines(m.indices_, 0, uv_attr # bad_attr, normal_attr # bad_attr),
                 threw |-> FALSE]

\* the shapes a pos attribute is given
Shapes == {<<3, 4, TRUE>>, <<3, 4, FALSE>>, <<3, 1, TRUE>>, <<3, 2, TRUE>>,
           <<2, 4, TRUE>>, <<4, 4, TRUE>>, <<1, 4, TRUE>>}

RECURSIVE BuildShaped(_, _, _, _, _)
\* add_attribute(names[a], shape) for pos, default shape otherwise, nv pushes each
BuildShaped(m, names, k, shape, nv) ==
  IF k > Len(names) THEN m
  ELSE LET a == IF names[k] = str_pos
                THEN attribute_of(names[k], shape[1], shape[2], shape[3])
                ELSE attribute(names[k])
           m1 == [m EXCEPT !.attrs_ = Append(@, a)]
           m2 == [m1 EXCEPT !.attrs_[k] = PushRows(@, IF names[k] = str_pos THEN 1 ELSE 2, 0, nv)]
       IN  BuildShaped(m2, names, k + 1, shape, nv)

ObjConfigs ==
  {<<>>, <<str_pos>>, <<str_normal>>, <<str_uv>>, <<str_pos, str_normal>>,
   <<str_uv, str_pos>>, <<str_pos, str_uv, str_normal>>}

InitObj ==
  /\ pc = "obj_ready"
  /\ \E names \in ObjConfigs, shape \in Shapes, nv \in 0..MaxVert, ni \in 0..MaxIdx,
        nl \in 0..MaxName :
       src = [BuildShaped(mesh(Name(nl), 4), names, 1, shape, nv)
                EXCEPT !.indices_ = [j \in 1..ni |-> IF nv = 0 THEN 0 ELSE (2 * j) % nv]]
  /\ Idle

\* a call  src.write_obj(os)  on an empty stream
WriteObj ==
  /\ pc = "obj_ready"
  /\ LET r == write_obj(src) IN
     /\ out' = r.os
     /\ outcome' = IF r.threw THEN "threw" ELSE "returned"
  /\ pc' = "obj_done"
  /\ UNCHANGED <<src, args, dest, finalized, hist, ip, p, stack, size_, sstack, closed, texts,
                 mats>>

NextObj == WriteObj

SpecObj == InitObj /\ [][NextObj]_vars

----------------------------------------------------------------------------
(* Properties of mesh::write_obj *)

\* the pos attribute is 3 components of 4-byte float
PosIs3xFloat32(m) ==
  LET a == FirstAttr(m, str_pos)
  IN  a.vector_elems_ = 3 /\ a.scalar_size_ = 4 /\ a.is_float_

\* the number of line feeds in the stream, and of lines that start with ch
LineCount == Cardinality({k \in 1..Len(out) : out[k] = 10})
LinesStarting(ch) ==
  Cardinality({k \in 1..Len(out) : out[k] = ch /\ (k = 1 \/ out[k - 1] = 10)})

ObjHeader == <<111, 32>> \o src.name_ \o <<10>>

\* C11: write_obj raises an error if and only if a pos attribute exists and
\* is not 3 x 4-byte float.  With a 3 x float32 pos attribute it returns
\* having written the header, one v line per vertex and one f line per
\* triangle; without a pos attribute it writes the header only and returns.
C11_WriteObjErrors ==
  pc = "obj_done" =>
    /\ outcome = "threw" <=> (HasAttr(src, str_pos) /\ ~PosIs3xFloat32(src))
    /\ (HasAttr(src, str_pos) /\ PosIs3xFloat32(src)) =>
         /\ outcome = "returned"
         /\ SubSeq(out, 1, Len(ObjHeader)) = ObjHeader
         /\ LinesStarting(118) = vertex_count(FirstAttr(src, str_pos))
         /\ LinesStarting(102) = Len(src.indices_) \div 3
         /\ LineCount = 1 + vertex_count(FirstAttr(src, str_pos)) + Len(src.indices_) \div 3
    /\ ~HasAttr(src, str_pos) => (outcome = "returned" /\ out = ObjHeader)

----------------------------------------------------------------------------
(* mat2 and its product (math.hpp).  A matrix is the sequence of its       *)
(* columns, a column the sequence of its elements; entries are             *)
(* integer-valued floats.                                                  *)

vec2(x, y) == <<x, y>>

\* mat2(float xx, float xy, float yx, float yy): set_elem(0, ...), set_elem(1, ...)
mat2(xx, xy, yx, yy) == <<vec2(xx, xy), vec2(yx, yy)>>

\* operator*(basic_vec, Scalar) and operator+ by way of map
vec_scale(a, s) == [i \in 1..Len(a) |-> a[i] * s]
vec_add(a, b) == [i \in 1..Len(a) |-> a[i] + b[i]]

\* operator==(basic_vec, basic_vec): the count of equal elements is N
vec_eq(a, b) == Cardinality({i \in 1..Len(a) : a[i] = b[i]}) = Len(a)

RECURSIVE column_sum(_, _, _, _, _)
\* the inner loop from r on (0-based), for column c of the result
column_sum(a, b, c, r, sum) ==
  IF r = Len(a[1]) THEN sum
  ELSE column_sum(a, b, c, r + 1, vec_add(sum, vec_scale(a[r + 1], b[c + 1][r + 1])))

\* operator* with b[r][c] in place of b[c][r]
mat_mul_transposed(a, b) ==
  [c \in 1..Len(a) |->
     vec_add(vec_scale(a[1], b[1][c]), vec_scale(a[2], b[2][c]))]

\* operator*(basic_mat, basic_mat)
mat_mul(a, b) ==
  [c \in 1..Len(a) |-> column_sum(a, b, c - 1, 1, vec_scale(a[1], b[c][1]))]

TestA == <<1, 2, 3, 4>>
TestB == <<10, 20, 30, 40>>

InitMat ==
  /\ pc = "mat_ready"
  /\ src = mesh(str_m, 4)
  /\ args = NoArgs /\ dest = <<>> /\ outcome = "none" /\ finalized = <<>>
  /\ hist = <<>> /\ ip = 0 /\ out = <<>> /\ p = 0 /\ stack = <<>>
  /\ size_ = 0 /\ sstack = <<>> /\ closed = <<>> /\ texts = <<>>
  /\ \E ea \in [1..4 -> (0 - 1)..MaxEntry] \cup {TestA},
        eb \in [1..4 -> (0 - 1)..MaxEntry] \cup {TestB} :
       mats = [ea |-> ea, eb |-> eb,
               a |-> mat2(ea[1], ea[2], ea[3], ea[4]),
               b |-> mat2(eb[1], eb[2], eb[3], eb[4]),
               c |-> <<>>]

\* mat2 c = a * b
MatMul ==
  /\ pc = "mat_ready"
  /\ mats' = [mats EXCEPT !.c = mat_mul(mats.a, mats.b)]
  /\ pc' = "mat_done"
  /\ UNCHANGED <<src, args, dest, outcome, finalized, hist, ip, out, p, stack, size_,
                 sstack, closed, texts>>

NextMat == MatMul

SpecMat == InitMat /\ [][NextMat]_vars

----------------------------------------------------------------------------
(* Properties of the mat2 product *)

\* C12: mat2(xx, xy, yx, yy) stores (xx, xy) as column 0 and (yx, yy) as
\* column 1, and element i of column c of a * b is the sum over r of
\* a[r][i] * b[c][r]: the column-major product.  mat2(1,2,3,4) *
\* mat2(10,20,30,40) == mat2(70,100,150,220).
C12_Mat2Product ==
  /\ pc \in {"mat_ready", "mat_done"} =>
       /\ mats.a[1] = <<mats.ea[1], mats.ea[2]>>
       /\ mats.a[2] = <<mats.ea[3], mats.ea[4]>>
  /\ pc = "mat_done" =>
       /\ \A c \in 1..2 : \A i \in 1..2 :
            mats.c[c][i] = mats.a[1][i] * mats.b[c][1] + mats.a[2][i] * mats.b[c][2]
       /\ (mats.ea = TestA /\ mats.eb = TestB) =>
            /\ vec_eq(mats.c[1], vec2(70, 100))
            /\ vec_eq(mats.c[2], vec2(150, 220))

\* the product of the test program has been computed
C12_Witness ==
  /\ pc = "mat_done"
  /\ mats.ea = TestA /\ mats.eb = TestB
  /\ mats.c = <<<<70, 100>>, <<150, 220>>>>

----------------------------------------------------------------------------
(* Chunk nesting in write_binary *)

\* the offset of the length field of a chunk whose tag starts at start: the
\* tag and its terminator, padded to a multiple of 4
LenFieldOf(start, tag) == start + 4 * ((Len(tag) + 4) \div 4)

\* the chunk<Iter> constructions in the call sequence
OpenCount == Cardinality({k \in 1..Len(Prog) : Prog[k].op = "open"})

\* Closing order: a chunk closed earlier lies inside or wholly before one
\* closed later; a closed chunk lies inside, or wholly before, every chunk
\* that is still open; open chunks are nested in opening order; each closed
\* chunk was patched at its own length field; at the return every chunk
\* opened has been closed exactly once.
NestingInv ==
  Writing =>
    /\ \A i \in 1..Len(closed) : \A j \in (i + 1)..Len(closed) :
         \/ closed[i].end <= closed[j].start
         \/ closed[j].start < closed[i].start /\ closed[i].end <= closed[j].payload_end
    /\ \A i \in 1..Len(closed) : \A k \in 1..Len(stack) :
         \/ closed[i].end <= stack[k].start
         \/ stack[k].start < closed[i].start
    /\ \A k \in 1..(Len(stack) - 1) : stack[k].start < stack[k + 1].start
    /\ \A i \in 1..Len(closed) : closed[i].len = LenFieldOf(closed[i].start, closed[i].tag)
    /\ (pc = "write_done" \/ ip > Len(Prog)) =>
         /\ stack = <<>>
         /\ Len(closed) = OpenCount
         /\ Cardinality({closed[i].start : i \in 1..Len(closed)}) = Len(closed)

\* A step changes a byte already written only when it closes a chunk, and
\* then only within the 4 bytes of that chunk's own length field.
PatchOnlyOwnLength ==
  /\ Len(out') >= Len(out)
  /\ \A j \in 1..Len(out) :
       out'[j] # out[j] =>
         /\ Len(closed') = Len(closed) + 1
         /\ LET c == closed'[Len(closed')]
                lf == LenFieldOf(c.start, c.tag)
            IN  j - 1 >= lf /\ j - 1 < lf + 4

\* C13: chunk nesting is last-in-first-out: an inner chunk closes before
\* its enclosing chunk closes and before its next sibling opens, every
\* chunk opened is closed exactly once before write_binary returns, and a
\* close rewrites only the 4 bytes of its own length field.
C13_LifoNesting == [](NestingInv) /\ [][PatchOnlyOwnLength]_vars

\* a finished output in which a chunk at depth 3 closed before its parent,
\* the parent before MLT, and a chunk closed before its next sibling opened
C13_Witness ==
  /\ pc = "write_done" /\ stack = <<>> /\ Len(dest) = MaxMeshes
  /\ \E i, j, k \in 1..Len(closed) :
       /\ i < j /\ j < k
       /\ closed[i].depth = 3 /\ closed[j].depth = 2 /\ closed[k].depth = 1
       /\ closed[j].start < closed[i].start /\ closed[i].end <= closed[j].payload_end
  /\ \E i, j \in 1..Len(closed) :
       i < j /\ closed[i].depth = closed[j].depth /\ closed[i].end = closed[j].start
  /\ \E i \in 1..Len(closed) : Rd32(closed[i].len) > 4

====
